---- MODULE Spec2Model ----
(***************************************************************************)
(* St. Paul crime REST service (rest_server.mjs) over its three tables.    *)
(*                                                                         *)
(* Text values the handlers take apart are sequences of one-character      *)
(* strings.  A date is the field triple <<y, m, d>> of 'YYYY-MM-DD', a     *)
(* time the triple <<h, mi, s>> of 'HH:MM:SS', and a stored date_time the  *)
(* field sequence with the separator's character code between the two.     *)
(* Fields are zero padded in the text, so the text order of two values is  *)
(* the lexicographic order of their field sequences.                       *)
(***************************************************************************)
EXTENDS Integers, Sequences, FiniteSets, TLC

(* ------------------------------ bounds -------------------------------- *)
\* requests that can be in flight at once
MaxReq == 2
\* rows the Incidents table may hold
MaxRows == 2
\* rows of a pre-seeded Incidents table in the read-only specification
MaxSeed == 3

(* --------------------------- program constants ------------------------ *)
DefaultLimit == 1000
StatusOK == 200
StatusError == 500

VARIABLES
    Incidents,      \* table Incidents, in rowid order
    Codes,          \* table Codes
    Neighborhoods,  \* table Neighborhoods
    uniqueKey,      \* does the store reject a second row with a case_number
    reqs,           \* the /new-incident and /remove-incident handlers in flight
    resp            \* the last response of a GET handler

\* the page (the Vue component): its refs, its map and its pending work
VARIABLES
    crime_url,              \* the REST server URL typed into the dialog
    codeList,               \* [{code, type}] as last fetched
    neighborhoodList,       \* [{id, name}] as last fetched
    incidents,              \* the incidents currently loaded
    circles,                \* map.neighborhood_locations[..].marker, by id
    selectedCodes,          \* filter selections
    selectedNeighborhoods,
    startDate,
    endDate,
    maxIncidents,
    newIncident,            \* the new-incident form
    showNewIncidentForm,
    dialogOpen,             \* the URL dialog is still on the page
    ops,                    \* the async functions started, in the order they started
    applied,                \* the filter selections at the last applyFilters
    crimeMarker,            \* map.crimeMarker
    mapMarkers,             \* the pinned-incident markers added to the map
    mapView,                \* what the map was last centered on
    reverseTimer,           \* the timer handle debounceReverseGeocode keeps
    timers,                 \* the timeouts that are pending, with their due time
    now,                    \* the clock, in ms
    mounted,                \* "no", "yes", "gone"
    lastMove,               \* when debounceReverseGeocode last ran
    lookups                 \* reverse-geocode lookups issued since then

serverVars == <<Incidents, Codes, Neighborhoods, uniqueKey, reqs, resp>>
dataVars == <<codeList, neighborhoodList, incidents, circles>>
filterVars == <<selectedCodes, selectedNeighborhoods, startDate, endDate, maxIncidents>>
formVars == <<newIncident, showNewIncidentForm>>
procVars == <<crime_url, dialogOpen, ops, applied>>
pinVars == <<crimeMarker, mapMarkers, mapView>>
timerVars == <<reverseTimer, timers, now, mounted, lastMove, lookups>>
clientVars == <<dataVars, filterVars, formVars, procVars, pinVars, timerVars>>

vars == <<serverVars, clientVars>>

(* ------------------------------ helpers ------------------------------- *)
Range(s) == {s[i] : i \in 1..Len(s)}

Min(a, b) == IF a < b THEN a ELSE b

\* text order of two field sequences: -1, 0, 1
RECURSIVE Cmp(_, _)
Cmp(a, b) ==
    IF a = <<>> /\ b = <<>> THEN 0
    ELSE IF a = <<>> THEN -1
    ELSE IF b = <<>> THEN 1
    ELSE IF Head(a) < Head(b) THEN -1
    ELSE IF Head(a) > Head(b) THEN 1
    ELSE Cmp(Tail(a), Tail(b))

\* SQL NULL
Null == <<>>

(* ------------------- SQLite DATE() and TIME() ------------------------- *)
SepT == 84
SepSpace == 32

IsLeap(y) == (y % 4 = 0 /\ y % 100 # 0) \/ y % 400 = 0

DaysInMonth(y, m) ==
    IF m = 2 THEN (IF IsLeap(y) THEN 29 ELSE 28)
    ELSE IF m \in {4, 6, 9, 11} THEN 30 ELSE 31

\* the calendar date of day d of month m, d possibly past the month's end
NormalDate(y, m, d) ==
    IF d <= DaysInMonth(y, m) THEN <<y, m, d>>
    ELSE IF m = 12 THEN <<y + 1, 1, d - DaysInMonth(y, m)>>
    ELSE <<y, m + 1, d - DaysInMonth(y, m)>>

\* a date_time the date functions accept: YYYY-MM-DD, then nothing or a
\* 'T' or ' ' and HH:MM:SS, every field within the parser's range
ValidDateTime(dt) ==
    /\ Len(dt) \in {3, 7}
    /\ dt[2] \in 1..12
    /\ dt[3] \in 1..31
    /\ Len(dt) = 7 =>
        /\ dt[4] \in {SepT, SepSpace}
        /\ dt[5] \in 0..24
        /\ dt[6] \in 0..59
        /\ dt[7] \in 0..59

\* DATE(date_time): the normalised calendar date, or NULL
SqlDate(dt) ==
    IF ~ValidDateTime(dt) THEN Null
    ELSE IF Len(dt) = 7 /\ dt[5] = 24 THEN NormalDate(dt[1], dt[2], dt[3] + 1)
    ELSE NormalDate(dt[1], dt[2], dt[3])

\* TIME(date_time): the time of day, or NULL
SqlTime(dt) ==
    IF ~ValidDateTime(dt) THEN Null
    ELSE IF Len(dt) = 3 THEN <<0, 0, 0>>
    ELSE <<dt[5] % 24, dt[6], dt[7]>>

(* --------------------------- sample data ------------------------------ *)
CaseNumbers == {"24000001", "24000002"}

\* the fields of a submitted record other than its case_number
Templates == {
    [date |-> <<2024, 1, 5>>, time |-> <<13, 30, 0>>, code |-> 1,
     incident |-> "Theft", police_grid |-> 1, neighborhood_number |-> 1,
     block |-> "9XX MAIN ST"],
    [date |-> <<2024, 2, 29>>, time |-> <<23, 59, 59>>, code |-> 2,
     incident |-> "Auto Theft", police_grid |-> 2, neighborhood_number |-> 2,
     block |-> "12X OAK AV"] }

Body(cn, t) ==
    [case_number |-> cn, date |-> t.date, time |-> t.time, code |-> t.code,
     incident |-> t.incident, police_grid |-> t.police_grid,
     neighborhood_number |-> t.neighborhood_number, block |-> t.block]

Bodies == {Body(cn, t) : cn \in CaseNumbers, t \in Templates}

SeedCodes == {[code |-> 1, incident_type |-> "Theft"],
              [code |-> 2, incident_type |-> "Auto Theft"],
              [code |-> 3, incident_type |-> "Narcotics"]}

SeedNeighborhoods == {[neighborhood_number |-> 1, neighborhood_name |-> "Eastview"],
                      [neighborhood_number |-> 2, neighborhood_name |-> "Greater East Side"],
                      [neighborhood_number |-> 3, neighborhood_name |-> "West Side"]}

(* --------------------------- responses -------------------------------- *)
NoResp == [status |-> 0, text |-> ""]
RespOK == [status |-> StatusOK, text |-> "OK"]
RespConflict == [status |-> StatusError, text |-> "Case number already exists"]
RespInsertError == [status |-> StatusError, text |-> "Error inserting incident"]
RespNotFound == [status |-> StatusError, text |-> "Case number does not exist"]
\* no GET response on its way
NoGet == [kind |-> "none"]

(* ------------------ PUT /new-incident, DELETE /remove-incident -------- *)
Slots == 1..MaxReq

Idle == [op |-> "none", pc |-> "idle", body |-> [case_number |-> ""],
         resp |-> NoResp]

\* a handler that has responded keeps nothing but the key it was called with
Key(body) == [case_number |-> body.case_number]

\* the slot an arriving request takes: the first one with no handler running
FreeSlot(r) ==
    /\ reqs[r].pc \in {"idle", "done"}
    /\ \A q \in Slots : q < r => reqs[q].pc \notin {"idle", "done"}

\* SELECT case_number FROM Incidents WHERE case_number = ?
SelectCase(cn) == SelectSeq(Incidents, LAMBDA row : row.case_number = cn)

\* `${req.body.time}T${req.body.date}`
DateTimeOf_TimeFirst(body) == body.time \o <<SepT>> \o body.date

\* `${req.body.date}T${req.body.time}`
DateTimeOf(body) == body.date \o <<SepT>> \o body.time

InsertParams(body) ==
    [case_number |-> body.case_number, date_time |-> DateTimeOf(body),
     code |-> body.code, incident |-> body.incident,
     police_grid |-> body.police_grid,
     neighborhood_number |-> body.neighborhood_number, block |-> body.block]

\* the test with its bound off by one
CreateBlocked_OffByOne(existing) == Len(existing) > 1

\* the create handler's test of the preceding read
CreateBlocked(existing) == Len(existing) > 0

\* the test with the comparison turned round
DeleteBlocked_Never(existing) == Len(existing) < 0

\* the delete handler's test of the preceding read
DeleteBlocked(existing) == Len(existing) = 0

\* a PUT /new-incident request arrives and its handler issues the read
PutNewIncident(r, body) ==
    /\ FreeSlot(r)
    /\ reqs' = [reqs EXCEPT ![r] = [op |-> "create", pc |-> "check", body |-> body,
                                    resp |-> NoResp]]
    /\ UNCHANGED <<Incidents, Codes, Neighborhoods, uniqueKey, resp>>

\* the read resolves: conflict response, or go on to the insert
CreateCheck(r) ==
    /\ reqs[r].op = "create" /\ reqs[r].pc = "check"
    /\ LET existing == SelectCase(reqs[r].body.case_number) IN
         IF CreateBlocked(existing)
         THEN reqs' = [reqs EXCEPT ![r].pc = "done", ![r].body = Key(@),
                                   ![r].resp = RespConflict]
         ELSE reqs' = [reqs EXCEPT ![r].pc = "write"]
    /\ UNCHANGED <<Incidents, Codes, Neighborhoods, uniqueKey, resp>>

\* INSERT OR REPLACE: a row with the key is overwritten
CreateInsert_Replace(r) ==
    /\ reqs[r].op = "create" /\ reqs[r].pc = "write"
    /\ Len(Incidents) < MaxRows
    /\ Incidents' = Append(SelectSeq(Incidents,
                              LAMBDA row : row.case_number # reqs[r].body.case_number),
                          InsertParams(reqs[r].body))
    /\ reqs' = [reqs EXCEPT ![r].pc = "done", ![r].body = Key(@), ![r].resp = RespOK]
    /\ UNCHANGED <<Codes, Neighborhoods, uniqueKey, resp>>

\* the INSERT runs: the store rejects it only under its own uniqueness rule
CreateInsert(r) ==
    /\ reqs[r].op = "create" /\ reqs[r].pc = "write"
    /\ IF uniqueKey /\ Len(SelectCase(reqs[r].body.case_number)) > 0
       THEN /\ reqs' = [reqs EXCEPT ![r].pc = "done", ![r].body = Key(@),
                                      ![r].resp = RespInsertError]
            /\ UNCHANGED Incidents
       ELSE /\ Len(Incidents) < MaxRows
            /\ Incidents' = Append(Incidents, InsertParams(reqs[r].body))
            /\ reqs' = [reqs EXCEPT ![r].pc = "done", ![r].body = Key(@),
                                      ![r].resp = RespOK]
    /\ UNCHANGED <<Codes, Neighborhoods, uniqueKey, resp>>

\* a DELETE /remove-incident request arrives and its handler issues the read
DeleteRemoveIncident(r, cn) ==
    /\ FreeSlot(r)
    /\ reqs' = [reqs EXCEPT ![r] = [op |-> "delete", pc |-> "check",
                                    body |-> [case_number |-> cn],
                                    resp |-> NoResp]]
    /\ UNCHANGED <<Incidents, Codes, Neighborhoods, uniqueKey, resp>>

\* the read resolves: not-found response, or go on to the DELETE
DeleteCheck(r) ==
    /\ reqs[r].op = "delete" /\ reqs[r].pc = "check"
    /\ LET existing == SelectCase(reqs[r].body.case_number) IN
         IF DeleteBlocked(existing)
         THEN reqs' = [reqs EXCEPT ![r].pc = "done", ![r].resp = RespNotFound]
         ELSE reqs' = [reqs EXCEPT ![r].pc = "write"]
    /\ UNCHANGED <<Incidents, Codes, Neighborhoods, uniqueKey, resp>>

\* DELETE FROM Incidents, the WHERE left out
DeleteRows_NoWhere(rows, cn) == <<>>

\* DELETE FROM Incidents WHERE case_number = ?
DeleteRows(rows, cn) == SelectSeq(rows, LAMBDA row : row.case_number # cn)

DeleteRun(r) ==
    /\ reqs[r].op = "delete" /\ reqs[r].pc = "write"
    /\ Incidents' = DeleteRows(Incidents, reqs[r].body.case_number)
    /\ reqs' = [reqs EXCEPT ![r].pc = "done", ![r].resp = RespOK]
    /\ UNCHANGED <<Codes, Neighborhoods, uniqueKey, resp>>

(* ------------------------- query parameters --------------------------- *)
Digits == {"0", "1", "2", "3", "4", "5", "6", "7", "8", "9"}

DigitVal(c) ==
    CASE c = "0" -> 0 [] c = "1" -> 1 [] c = "2" -> 2 [] c = "3" -> 3
      [] c = "4" -> 4 [] c = "5" -> 5 [] c = "6" -> 6 [] c = "7" -> 7
      [] c = "8" -> 8 [] c = "9" -> 9

\* the value of the longest run of digits at the head of s, after acc
RECURSIVE DigitsPrefix(_, _)
DigitsPrefix(s, acc) ==
    IF s = <<>> \/ Head(s) \notin Digits THEN acc
    ELSE DigitsPrefix(Tail(s), 10 * acc + DigitVal(Head(s)))

RECURSIVE TrimStart(_)
TrimStart(s) == IF s # <<>> /\ Head(s) = " " THEN TrimStart(Tail(s)) ELSE s

RECURSIVE TrimEnd(_)
TrimEnd(s) ==
    IF s # <<>> /\ s[Len(s)] = " " THEN TrimEnd(SubSeq(s, 1, Len(s) - 1)) ELSE s

\* String.prototype.trim
Trim(s) == TrimEnd(TrimStart(s))

\* String.prototype.split(','): the pieces between the commas
RECURSIVE SplitComma(_, _)
SplitComma(s, cur) ==
    IF s = <<>> THEN <<cur>>
    ELSE IF Head(s) = "," THEN <<cur>> \o SplitComma(Tail(s), <<>>)
    ELSE SplitComma(Tail(s), Append(cur, Head(s)))

\* req.query.x.split(',').map((c) => c.trim())
SplitList(s) ==
    LET parts == SplitComma(s, <<>>) IN [i \in 1..Len(parts) |-> Trim(parts[i])]

NaN == [nan |-> TRUE, val |-> 0]
Num(n) == [nan |-> FALSE, val |-> n]

\* parseInt(s): leading white space, a sign, then the digits that follow;
\* whatever comes after the digits is ignored
ParseInt(s) ==
    LET t == TrimStart(s)
        neg == t # <<>> /\ Head(t) = "-"
        u == IF t # <<>> /\ Head(t) \in {"-", "+"} THEN Tail(t) ELSE t
    IN  IF u = <<>> \/ Head(u) \notin Digits THEN NaN
        ELSE Num(IF neg THEN 0 - DigitsPrefix(u, 0) ELSE DigitsPrefix(u, 0))

\* let limit = req.query.limit ? parseInt(req.query.limit) : 1000;
\* if (!Number.isFinite(limit) || limit <= 0) limit = 1000;
EffectiveLimit(s) ==
    LET limit == IF s # <<>> THEN ParseInt(s) ELSE Num(DefaultLimit)
    IN  IF limit.nan \/ limit.val <= 0 THEN DefaultLimit ELSE limit.val

\* a bound text parameter compared with an integer column: the text is read
\* as a number when it is one, and no integer equals any other text
NotInteger == -1
AsInteger(tok) ==
    IF tok # <<>> /\ \A i \in 1..Len(tok) : tok[i] \in Digits
    THEN DigitsPrefix(tok, 0) ELSE NotInteger

\* x IN (?, ?, ...) for an integer column x
InList(x, toks) == \E i \in 1..Len(toks) : AsInteger(toks[i]) = x

(* ---------------------------- GET /incidents -------------------------- *)
\* whereClauses with the end_date comparison copied from start_date
WhereClauses_EndAsStart(q) ==
    (IF q.start_date # <<>> THEN <<[col |-> "date >=", params |-> q.start_date]>> ELSE <<>>)
    \o (IF q.end_date # <<>> THEN <<[col |-> "date >=", params |-> q.end_date]>> ELSE <<>>)
    \o (IF q.code # <<>> THEN <<[col |-> "code", params |-> SplitList(q.code)]>> ELSE <<>>)
    \o (IF q.grid # <<>>
        THEN <<[col |-> "police_grid", params |-> SplitList(q.grid)]>> ELSE <<>>)
    \o (IF q.neighborhood # <<>>
        THEN <<[col |-> "neighborhood_number", params |-> SplitList(q.neighborhood)]>>
        ELSE <<>>)

\* whereClauses with the code clause assigned instead of pushed
WhereClauses_CodeAssigned(q) ==
    (IF q.code # <<>> THEN <<[col |-> "code", params |-> SplitList(q.code)]>>
     ELSE (IF q.start_date # <<>>
           THEN <<[col |-> "date >=", params |-> q.start_date]>> ELSE <<>>)
          \o (IF q.end_date # <<>>
              THEN <<[col |-> "date <=", params |-> q.end_date]>> ELSE <<>>))
    \o (IF q.grid # <<>>
        THEN <<[col |-> "police_grid", params |-> SplitList(q.grid)]>> ELSE <<>>)
    \o (IF q.neighborhood # <<>>
        THEN <<[col |-> "neighborhood_number", params |-> SplitList(q.neighborhood)]>>
        ELSE <<>>)

\* whereClauses, in the order the handler pushes them
WhereClauses(q) ==
    (IF q.start_date # <<>> THEN <<[col |-> "date >=", params |-> q.start_date]>> ELSE <<>>)
    \o (IF q.end_date # <<>> THEN <<[col |-> "date <=", params |-> q.end_date]>> ELSE <<>>)
    \o (IF q.code # <<>> THEN <<[col |-> "code", params |-> SplitList(q.code)]>> ELSE <<>>)
    \o (IF q.grid # <<>>
        THEN <<[col |-> "police_grid", params |-> SplitList(q.grid)]>> ELSE <<>>)
    \o (IF q.neighborhood # <<>>
        THEN <<[col |-> "neighborhood_number", params |-> SplitList(q.neighborhood)]>>
        ELSE <<>>)

\* one clause of the WHERE, on one row; a NULL date satisfies no comparison
ClauseHolds(row, c) ==
    CASE c.col = "date >=" ->
            SqlDate(row.date_time) # Null /\ Cmp(SqlDate(row.date_time), c.params) >= 0
      [] c.col = "date <=" ->
            SqlDate(row.date_time) # Null /\ Cmp(SqlDate(row.date_time), c.params) <= 0
      [] c.col = "code" -> InList(row.code, c.params)
      [] c.col = "police_grid" -> InList(row.police_grid, c.params)
      [] c.col = "neighborhood_number" -> InList(row.neighborhood_number, c.params)

\* WHERE c1 AND c2 AND ...
WhereHolds(row, clauses) == \A i \in 1..Len(clauses) : ClauseHolds(row, clauses[i])

\* the rowids the WHERE keeps
Selected(rows, q) == {i \in 1..Len(rows) : WhereHolds(rows[i], WhereClauses(q))}

\* the sequences that list every element of S once
Perms(S) ==
    {p \in [1..Cardinality(S) -> S] : \A i, j \in 1..Cardinality(S) : i # j => p[i] # p[j]}

\* ORDER BY date_time, the DESC left out
OrderByDateTimeDesc_Asc(rows, S) ==
    {p \in Perms(S) :
        \A i \in 1..(Len(p) - 1) : Cmp(rows[p[i]].date_time, rows[p[i + 1]].date_time) <= 0}

\* ORDER BY date_time DESC: the stored text, latest first; equal keys come in
\* an order the store does not promise
OrderByDateTimeDesc(rows, S) ==
    {p \in Perms(S) :
        \A i \in 1..(Len(p) - 1) : Cmp(rows[p[i]].date_time, rows[p[i + 1]].date_time) >= 0}

\* LIMIT n
Limit(p, n) == SubSeq(p, 1, Min(n, Len(p)))

\* the SELECT list, and the handler's copy of it into the response
IncidentJson(row) ==
    [case_number |-> row.case_number, date |-> SqlDate(row.date_time),
     time |-> SqlTime(row.date_time), code |-> row.code, incident |-> row.incident,
     police_grid |-> row.police_grid,
     neighborhood_number |-> row.neighborhood_number, block |-> row.block]

\* every answer the handler can give for query q on the table rows
ListResults(rows, q) ==
    {[kind |-> "incidents", query |-> q, limit |-> EffectiveLimit(q.limit),
      status |-> StatusOK, sel |-> Limit(p, EffectiveLimit(q.limit)),
      rows |-> [i \in 1..Min(EffectiveLimit(q.limit), Len(p)) |-> IncidentJson(rows[p[i]])]]
     : p \in OrderByDateTimeDesc(rows, Selected(rows, q))}

\* one request at a time from the one client: no answer is still on its way
NoneInFlight == resp = NoGet

GetIncidents(q) ==
    /\ NoneInFlight
    /\ resp' \in ListResults(Incidents, q)
    /\ UNCHANGED <<Incidents, Codes, Neighborhoods, uniqueKey, reqs>>

(* --------------------- GET /codes, GET /neighborhoods ----------------- *)
\* ORDER BY code: the sequence listing S once, ascending by code
SortByCode(S) ==
    CHOOSE p \in Perms(S) : \A i \in 1..(Len(p) - 1) : p[i].code < p[i + 1].code

\* ORDER BY neighborhood_number
SortByNumber(S) ==
    CHOOSE p \in Perms(S) :
        \A i \in 1..(Len(p) - 1) : p[i].neighborhood_number < p[i + 1].neighborhood_number

CodeRows(f) ==
    IF f # <<>> THEN {c \in Codes : InList(c.code, SplitList(f))} ELSE Codes

\* the id filter never applied
NeighborhoodRows_Unfiltered(f) == Neighborhoods

NeighborhoodRows(f) ==
    IF f # <<>>
    THEN {n \in Neighborhoods : InList(n.neighborhood_number, SplitList(f))}
    ELSE Neighborhoods

\* the rows of the answer: { code, type }
CodesJson(f) ==
    LET rows == SortByCode(CodeRows(f)) IN
    [i \in 1..Len(rows) |-> [code |-> rows[i].code, type |-> rows[i].incident_type]]

\* the rows of the answer: { id, name }
NeighborhoodsJson(f) ==
    LET rows == SortByNumber(NeighborhoodRows(f)) IN
    [i \in 1..Len(rows) |->
        [id |-> rows[i].neighborhood_number, name |-> rows[i].neighborhood_name]]

GetCodes(f) ==
    /\ NoneInFlight
    /\ resp' = [kind |-> "codes", query |-> f, status |-> StatusOK, rows |-> CodesJson(f)]
    /\ UNCHANGED <<Incidents, Codes, Neighborhoods, uniqueKey, reqs>>

GetNeighborhoods(f) ==
    /\ NoneInFlight
    /\ resp' = [kind |-> "neighborhoods", query |-> f, status |-> StatusOK,
                 rows |-> NeighborhoodsJson(f)]
    /\ UNCHANGED <<Incidents, Codes, Neighborhoods, uniqueKey, reqs>>

\* the answer reaches the client
Deliver ==
    /\ resp # NoGet
    /\ resp' = NoGet
    /\ UNCHANGED <<Incidents, Codes, Neighborhoods, uniqueKey, reqs>>

(* ------------------------ sample requests ----------------------------- *)
DateParams == {<<>>, <<2024, 1, 5>>, <<2024, 2, 1>>}

CodeParams == {<<>>, <<"1">>, <<"1", ",", " ", "2">>, <<"0", "3", " ">>, <<",">>}

GridParams == {<<>>, <<" ", "1", ",", "2">>}

NeighborhoodParams == {<<>>, <<"2", ",", "3">>}

IdParams == {<<>>, <<"3", ",", "7">>, <<" ", "2", " ", ",", "1">>, <<"7">>, <<",">>,
             <<"1", ",", "1">>, <<"x">>, <<" ">>}

LimitParams == {<<>>, <<"a", "b", "c">>, <<"0">>, <<"-", "1">>, <<"1">>, <<"2">>,
                <<"0", "3">>, <<"2", "a", "b">>, <<"1", ".", "5">>, <<" ", "2">>}

\* every combination of filters under a few limits, and every limit text
\* under a few filters
Queries ==
    [start_date : DateParams, end_date : DateParams, code : CodeParams,
     grid : GridParams, neighborhood : NeighborhoodParams,
     limit : {<<>>, <<"1">>, <<"2">>}]
    \cup
    [start_date : {<<>>}, end_date : {<<>>}, code : {<<>>, <<"1", ",", " ", "2">>},
     grid : {<<>>}, neighborhood : {<<>>}, limit : LimitParams]

\* rows of a pre-seeded Incidents table
SeedRows == <<
    [case_number |-> "14000001", date_time |-> <<2024, 1, 5, SepT, 13, 30, 0>>,
     code |-> 1, incident |-> "Theft", police_grid |-> 1,
     neighborhood_number |-> 1, block |-> "9XX MAIN ST"],
    [case_number |-> "14000002", date_time |-> <<2024, 1, 5, SepT, 13, 30, 0>>,
     code |-> 2, incident |-> "Auto Theft", police_grid |-> 2,
     neighborhood_number |-> 1, block |-> "12X OAK AV"],
    [case_number |-> "14000003", date_time |-> <<2024, 2, 29, SepT, 23, 59, 59>>,
     code |-> 2, incident |-> "Auto Theft", police_grid |-> 1,
     neighborhood_number |-> 2, block |-> "3X ELM ST"],
    [case_number |-> "14000004", date_time |-> <<2023, 12, 31, SepT, 8, 0, 0>>,
     code |-> 3, incident |-> "Narcotics", police_grid |-> 2,
     neighborhood_number |-> 2, block |-> "45X PINE ST"],
    [case_number |-> "14000005", date_time |-> <<2024, 2, 1, SepSpace, 0, 0, 0>>,
     code |-> 1, incident |-> "Theft", police_grid |-> 2,
     neighborhood_number |-> 3, block |-> "7XX LAKE ST"] >>

\* the rows of SeedRows at the positions S, in rowid order
RECURSIVE SeedTable(_, _)
SeedTable(S, i) ==
    IF i > Len(SeedRows) THEN <<>>
    ELSE (IF i \in S THEN <<SeedRows[i]>> ELSE <<>>) \o SeedTable(S, i + 1)

(* ------------------------- the page's state --------------------------- *)
\* map.neighborhood_locations: the ids of the fixed marker locations
NumLocations == 17
LocationIds == 1..NumLocations

\* marker: null
NoCircle == [on |-> FALSE]

\* newIncident as constructed: every field ''
EmptyForm ==
    [case_number |-> "", date |-> <<>>, time |-> <<>>, code |-> 0, incident |-> "",
     police_grid |-> 0, neighborhood_number |-> 0, block |-> ""]

\* the async functions one run of the page starts
MaxOps == 2
OpSlots == 1..MaxOps

\* the query string of a request with no parameter
NoQuery ==
    [start_date |-> <<>>, end_date |-> <<>>, code |-> <<>>, grid |-> <<>>,
     neighborhood |-> <<>>, limit |-> <<>>]

NoReq == [kind |-> "none", url |-> "", query |-> NoQuery, body |-> [case_number |-> ""]]

\* no answer: the request is on its way, or fetch has rejected
NoRes == [status |-> 0, rows |-> <<>>]

\* an async function: the await it stands at, the request it awaits and the
\* answer once there is one; what it did so far (outcome, alert, changed,
\* mutated) and the order of its incident fetch among all (seq: issued,
\* rseq: resolved)
NoOp ==
    [fn |-> "none", pc |-> "idle", req |-> NoReq, answered |-> FALSE, res |-> NoRes,
     outcome |-> "", alert |-> "", changed |-> FALSE, mutated |-> FALSE,
     seq |-> 0, rseq |-> 0]

\* the filter selections, as one value
Selections ==
    [codes |-> selectedCodes, neighborhoods |-> selectedNeighborhoods,
     start |-> startDate, end |-> endDate, limit |-> maxIncidents]

\* the state <script setup> constructs, the incident list apart
PageInit ==
    /\ crime_url = ""
    /\ codeList = <<>>
    /\ neighborhoodList = <<>>
    /\ circles = [id \in LocationIds |-> NoCircle]
    /\ selectedCodes = <<>>
    /\ selectedNeighborhoods = <<>>
    /\ startDate = <<>>
    /\ endDate = <<>>
    /\ maxIncidents = DefaultLimit
    /\ newIncident = EmptyForm
    /\ showNewIncidentForm = FALSE
    /\ dialogOpen = TRUE
    /\ ops = [o \in OpSlots |-> NoOp]
    /\ applied = Selections
    /\ crimeMarker = 0
    /\ mapMarkers = {}
    /\ mapView = "center"
    /\ reverseTimer = 0
    /\ timers = {}
    /\ now = 0
    /\ mounted = "no"
    /\ lastMove = 0
    /\ lookups = 0

\* the state <script setup> constructs
ClientInit ==
    /\ PageInit
    /\ incidents = <<>>

Init ==
    /\ ClientInit
    /\ Incidents \in {<<>>} \cup {<<InsertParams(b)>> : b \in Bodies}
    /\ Codes = SeedCodes
    /\ Neighborhoods = SeedNeighborhoods
    /\ uniqueKey \in BOOLEAN
    /\ reqs = [r \in Slots |-> Idle]
    /\ resp = NoGet

Next ==
    \/ \E r \in Slots, body \in Bodies : PutNewIncident(r, body) /\ UNCHANGED clientVars
    \/ \E r \in Slots : CreateCheck(r) /\ UNCHANGED clientVars
    \/ \E r \in Slots : CreateInsert(r) /\ UNCHANGED clientVars
    \/ \E r \in Slots, cn \in CaseNumbers : DeleteRemoveIncident(r, cn) /\ UNCHANGED clientVars
    \/ \E r \in Slots : DeleteCheck(r) /\ UNCHANGED clientVars
    \/ \E r \in Slots : DeleteRun(r) /\ UNCHANGED clientVars

Spec == Init /\ [][Next]_vars

\* the read-only handlers over a pre-seeded store
InitList ==
    /\ ClientInit
    /\ Incidents \in {SeedTable(S, 1) :
                        S \in {T \in SUBSET (1..Len(SeedRows)) : Cardinality(T) <= MaxSeed}}
    /\ Codes = SeedCodes
    /\ Neighborhoods = SeedNeighborhoods
    /\ uniqueKey \in BOOLEAN
    /\ reqs = [r \in Slots |-> Idle]
    /\ resp = NoGet

NextList ==
    \/ \E q \in Queries : GetIncidents(q) /\ UNCHANGED clientVars
    \/ \E f \in CodeParams : GetCodes(f) /\ UNCHANGED clientVars
    \/ \E f \in IdParams : GetNeighborhoods(f) /\ UNCHANGED clientVars
    \/ Deliver /\ UNCHANGED clientVars

SpecList == InitList /\ [][NextList]_vars

(* ====================== properties of the mutations ==================== *)
\* the rows of the table that carry case_number cn
RowsWith(cn) == {i \in 1..Len(Incidents) : Incidents[i].case_number = cn}

\* how often row x occurs in the table rows
Count(rows, x) == Cardinality({i \in 1..Len(rows) : rows[i] = x})

\* C1: a createIncident whose existence check finds the submitted case_number
\* in the table answers 500 'Case number already exists', goes on to no
\* insert, and leaves every row of the table as it was.
C1_CreateConflict ==
    [][\A r \in Slots :
         (/\ reqs[r].op = "create" /\ reqs[r].pc = "check"
          /\ reqs'[r] # reqs[r]
          /\ RowsWith(reqs[r].body.case_number) # {})
         => (/\ reqs'[r].pc = "done"
             /\ reqs'[r].resp = RespConflict
             /\ Incidents' = Incidents)]_vars

\* a create was refused while the row with its case_number stands
C1_Witness ==
    \E r \in Slots :
        /\ reqs[r].op = "create"
        /\ reqs[r].resp = RespConflict
        /\ RowsWith(reqs[r].body.case_number) # {}

\* C2: a deleteIncident whose existence check finds no row with the
\* case_number answers 500 'Case number does not exist', goes on to no
\* DELETE, and leaves the table as it was, so that a repeat of the request
\* meets the same table and the same answer.
C2_DeleteMissing ==
    [][\A r \in Slots :
         (/\ reqs[r].op = "delete" /\ reqs[r].pc = "check"
          /\ reqs'[r] # reqs[r]
          /\ RowsWith(reqs[r].body.case_number) = {})
         => (/\ reqs'[r].pc = "done"
             /\ reqs'[r].resp = RespNotFound
             /\ Incidents' = Incidents)]_vars

\* the same missing case_number was refused twice, with rows in the table
C2_Witness ==
    \E r1, r2 \in Slots :
        /\ r1 # r2
        /\ reqs[r1].op = "delete" /\ reqs[r2].op = "delete"
        /\ reqs[r1].body = reqs[r2].body
        /\ reqs[r1].resp = RespNotFound /\ reqs[r2].resp = RespNotFound
        /\ Incidents # <<>>

\* C3: a deleteIncident whose existence check finds the case_number goes on
\* to the DELETE and answers 200 'OK'; the DELETE leaves no row with that
\* case_number and leaves every row with another case_number in place.
C3_DeleteExisting ==
    [][\A r \in Slots : reqs[r].op = "delete" =>
         LET cn == reqs[r].body.case_number IN
         /\ (reqs[r].pc = "check" /\ reqs'[r] # reqs[r] /\ RowsWith(cn) # {})
            => (reqs'[r].pc = "write" /\ Incidents' = Incidents)
         /\ (reqs[r].pc = "write" /\ reqs'[r] # reqs[r])
            => (/\ reqs'[r].pc = "done"
                /\ reqs'[r].resp = RespOK
                /\ \A i \in 1..Len(Incidents') : Incidents'[i].case_number # cn
                /\ Len(Incidents') = Len(Incidents) - Cardinality(RowsWith(cn))
                /\ \A i \in 1..Len(Incidents) :
                      Incidents[i].case_number # cn
                      => Count(Incidents', Incidents[i]) = Count(Incidents, Incidents[i]))]_vars

\* a delete succeeded, its row is gone and another row is still there
C3_Witness ==
    \E r \in Slots :
        /\ reqs[r].op = "delete"
        /\ reqs[r].resp = RespOK
        /\ RowsWith(reqs[r].body.case_number) = {}
        /\ Incidents # <<>>

\* what the claims call a filter's set: the integers its comma-separated,
\* trimmed items name
GivenSet(text) == {AsInteger(tok) : tok \in Range(SplitList(text))}

\* the conjunction of the filters that are given, on a record's date part,
\* code, police_grid and neighborhood_number
Admits(q, date, code, grid, neighborhood) ==
    /\ q.start_date # <<>> => (date # Null /\ Cmp(date, q.start_date) >= 0)
    /\ q.end_date # <<>> => (date # Null /\ Cmp(date, q.end_date) <= 0)
    /\ q.code # <<>> => code \in GivenSet(q.code)
    /\ q.grid # <<>> => grid \in GivenSet(q.grid)
    /\ q.neighborhood # <<>> => neighborhood \in GivenSet(q.neighborhood)

\* the listings tried after a create
RoundTripQueries ==
    {[start_date |-> <<>>, end_date |-> <<>>, code |-> <<>>, grid |-> <<>>,
      neighborhood |-> <<>>, limit |-> <<>>],
     [start_date |-> <<2024, 1, 5>>, end_date |-> <<2024, 2, 1>>, code |-> <<"1">>,
      grid |-> <<>>, neighborhood |-> <<>>, limit |-> <<"2">>],
     [start_date |-> <<2024, 2, 1>>, end_date |-> <<>>, code |-> <<>>,
      grid |-> <<" ", "1", ",", "2">>, neighborhood |-> <<"2", ",", "3">>,
      limit |-> <<"1">>]}

C10_CheckThenInsert ==
    [][/\ \A r \in Slots : reqs[r].op = "create" =>
            LET cn == reqs[r].body.case_number IN
            /\ (reqs[r].pc = "check" /\ reqs'[r] # reqs[r] /\ RowsWith(cn) # {})
               => reqs'[r].pc = "done"
            /\ (reqs[r].pc = "check" /\ reqs'[r] # reqs[r] /\ RowsWith(cn) = {})
               => reqs'[r].pc = "write"
            /\ (reqs[r].pc = "write" /\ reqs'[r] # reqs[r])
               => IF RowsWith(cn) # {} /\ uniqueKey
                  THEN Incidents' = Incidents /\ reqs'[r].resp = RespInsertError
                  ELSE /\ Incidents' = Append(Incidents, InsertParams(reqs[r].body))
                       /\ reqs'[r].resp = RespOK
       /\ Len(Incidents') > Len(Incidents)
          => \E r \in Slots : /\ reqs[r].op = "create" /\ reqs[r].pc = "write"
                              /\ reqs'[r].pc = "done"]_vars

\* two creates of one case_number both passed the check: two rows with it, or
\* one row and the late failure
C10_Witness ==
    \E r1, r2 \in Slots :
        /\ r1 # r2
        /\ reqs[r1].op = "create" /\ reqs[r2].op = "create"
        /\ reqs[r1].body.case_number = reqs[r2].body.case_number
        /\ reqs[r1].resp = RespOK
        /\ \/ (~uniqueKey /\ reqs[r2].resp = RespOK
               /\ Cardinality(RowsWith(reqs[r1].body.case_number)) = 2)
           \/ (uniqueKey /\ reqs[r2].resp = RespInsertError
               /\ Cardinality(RowsWith(reqs[r1].body.case_number)) = 1)

(* ====================== properties of the listings ===================== *)
\* the rows of the table the given filters of q admit
Admitted(q) ==
    {i \in 1..Len(Incidents) :
        Admits(q, SqlDate(Incidents[i].date_time), Incidents[i].code,
               Incidents[i].police_grid, Incidents[i].neighborhood_number)}

IsIncidentList == resp.kind = "incidents"

\* C5: a listing answers 200 with rows of the table only, and every row it
\* returns passes each filter that is given: date part >= start_date, date
\* part <= end_date, code, police_grid and neighborhood_number in their
\* lists; an absent or empty filter restricts nothing, and when no row passes
\* the answer is the empty array.
C5_OnlyMatching ==
    IsIncidentList =>
        LET q == resp.query IN
        /\ resp.status = StatusOK
        /\ \A i \in 1..Len(resp.rows) :
              /\ \E k \in 1..Len(Incidents) : resp.rows[i] = IncidentJson(Incidents[k])
              /\ q.start_date # <<>> => Cmp(resp.rows[i].date, q.start_date) >= 0
              /\ q.end_date # <<>> => Cmp(resp.rows[i].date, q.end_date) <= 0
              /\ q.code # <<>> => resp.rows[i].code \in GivenSet(q.code)
              /\ q.grid # <<>> => resp.rows[i].police_grid \in GivenSet(q.grid)
              /\ q.neighborhood # <<>>
                 => resp.rows[i].neighborhood_number \in GivenSet(q.neighborhood)
        /\ Admitted(q) = {} => resp.rows = <<>>

\* all five filters given, a row returned and a row held back
C5_Witness ==
    /\ IsIncidentList
    /\ resp.query.start_date # <<>> /\ resp.query.end_date # <<>>
    /\ resp.query.code # <<>> /\ resp.query.grid # <<>>
    /\ resp.query.neighborhood # <<>>
    /\ Len(resp.rows) >= 1
    /\ Len(resp.rows) < Len(Incidents)

\* the request of the answer in flight, its code filter taken away
WithoutCode == [resp.query EXCEPT !.code = <<>>]

\* C6 as claimed: the rows returned under a code filter are among the rows
\* returned without it for the same dates and the same limit, whatever the
\* limit.
C6_SubsetAnyLimit ==
    (IsIncidentList /\ resp.query.code # <<>>)
    => \A res \in ListResults(Incidents, WithoutCode) :
          Range(resp.rows) \subseteq Range(res.rows)

\* C6 as amended: the rows returned under a code filter are among the rows
\* returned without it for the same other parameters whenever the limit is
\* at least the number of rows the request without the code filter admits.
C6_SubsetWhenNotCut ==
    (/\ IsIncidentList /\ resp.query.code # <<>>
     /\ Cardinality(Admitted(WithoutCode)) <= resp.limit)
    => \A res \in ListResults(Incidents, WithoutCode) :
          Range(resp.rows) \subseteq Range(res.rows)

\* a code filter kept some rows of an uncut date range and dropped others
C6_Witness ==
    /\ IsIncidentList /\ resp.query.code # <<>>
    /\ resp.query.start_date # <<>>
    /\ Cardinality(Admitted(WithoutCode)) <= resp.limit
    /\ Len(resp.rows) >= 1
    /\ Len(resp.rows) < Cardinality(Admitted(WithoutCode))

\* a limit text that is a positive integer: digits only, white space around
\* them allowed, value above zero
IsPositiveInteger(s) ==
    /\ Trim(s) # <<>>
    /\ \A i \in 1..Len(Trim(s)) : Trim(s)[i] \in Digits
    /\ DigitsPrefix(Trim(s), 0) > 0

\* C7: the listing never fails on its limit; the effective limit is the
\* integer when the limit text is a positive integer and 1000 in every other
\* case, texts that only start with digits or are not whole numbers included.
C7_LimitFallback ==
    IsIncidentList =>
        /\ resp.status = StatusOK
        /\ resp.limit = IF IsPositiveInteger(resp.query.limit)
                        THEN DigitsPrefix(Trim(resp.query.limit), 0) ELSE DefaultLimit

\* C8: the rows returned are the first L of the admitted rows, latest
\* date_time first, L the effective limit: Min(L, admitted) rows, each
\* admitted row at most once, no row before one with a later date_time, and
\* no admitted row left out that is later than a returned one.
C8_NewestFirst ==
    IsIncidentList =>
        LET M == Admitted(resp.query)
            sel == resp.sel
            dt(k) == Incidents[k].date_time
        IN  /\ Len(sel) = Min(resp.limit, Cardinality(M))
            /\ Len(resp.rows) = Len(sel)
            /\ \A i \in 1..Len(sel) :
                  sel[i] \in M /\ resp.rows[i] = IncidentJson(Incidents[sel[i]])
            /\ \A i, j \in 1..Len(sel) : i < j =>
                  (sel[i] # sel[j] /\ Cmp(dt(sel[i]), dt(sel[j])) >= 0)
            /\ \A k \in M \ Range(sel) : \A i \in 1..Len(sel) :
                  Cmp(dt(k), dt(sel[i])) <= 0

\* the limit cut a listing of rows with different date_time values
C8_Witness ==
    /\ IsIncidentList
    /\ Len(resp.sel) = 2
    /\ Cardinality(Admitted(resp.query)) = 3
    /\ Incidents[resp.sel[1]].date_time # Incidents[resp.sel[2]].date_time
    /\ resp.sel[1] > resp.sel[2]

\* the records a reference listing is to return for filter text f
WantedNeighborhoods(f) ==
    IF f = <<>> THEN Neighborhoods
    ELSE {n \in Neighborhoods : n.neighborhood_number \in GivenSet(f)}

WantedCodes(f) ==
    IF f = <<>> THEN Codes ELSE {c \in Codes : c.code \in GivenSet(f)}

C9_Exact ==
    /\ resp.kind = "neighborhoods" =>
        /\ resp.status = StatusOK
        /\ Range(resp.rows) =
              {[id |-> n.neighborhood_number, name |-> n.neighborhood_name] :
                 n \in WantedNeighborhoods(resp.query)}
        /\ \A i, j \in 1..Len(resp.rows) : i < j => resp.rows[i].id < resp.rows[j].id
    /\ resp.kind = "codes" =>
        /\ resp.status = StatusOK
        /\ Range(resp.rows) =
              {[code |-> c.code, type |-> c.incident_type] : c \in WantedCodes(resp.query)}
        /\ \A i, j \in 1..Len(resp.rows) : i < j => resp.rows[i].code < resp.rows[j].code

\* C9: a neighborhoods listing returns exactly the stored records whose
\* number is in the id filter, each once, ascending by id, and all records
\* when the filter is absent or empty; a codes listing does the same over
\* the codes, ascending by code; and neither listing changes a table.
C9_ReferenceLists ==
    /\ []C9_Exact
    /\ [][resp'.kind \in {"neighborhoods", "codes"}
          => UNCHANGED <<Incidents, Codes, Neighborhoods>>]_vars

\* ids asked for as ' 2 ,1' came back as the records 1 and 2, in that order
C9_Witness ==
    /\ resp.kind = "neighborhoods"
    /\ resp.query = <<" ", "2", " ", ",", "1">>
    /\ Len(resp.rows) = 2
    /\ resp.rows[1].id = 1 /\ resp.rows[2].id = 2


(* ------------------- updateNeighborhoodCircles ------------------------ *)
\* the largest neighborhood count of the incident lists tried
MaxCount == 10

MinRadius == 8
RadiusSpan == 25

MaxOf(S) == CHOOSE x \in S : \A y \in S : y <= x

\* Number(inc.neighborhood_number) of the rows of a list
NumbersIn(list) == {list[i].neighborhood_number : i \in 1..Len(list)}

\* counts.get(n) || 0
CountOf(list, n) ==
    Cardinality({i \in 1..Len(list) : list[i].neighborhood_number = n})

\* the maximum taken over the counts alone
MaxCountOf_NoFloor(list) == MaxOf({0} \cup {CountOf(list, n) : n \in NumbersIn(list)})

\* Math.max(1, ...counts.values())
MaxCountOf(list) == MaxOf({1} \cup {CountOf(list, n) : n \in NumbersIn(list)})

\* 8 + 25 * Math.sqrt(count / maxCount), kept exact: the value is
\* base + span * sqrt(num / den)
Radius(count, maxCount) ==
    [base |-> MinRadius, span |-> RadiusSpan, num |-> count, den |-> maxCount]

\* a < b for two radii of positive den: sqrt is strictly increasing
RadiusLess(a, b) ==
    /\ a.base = b.base /\ a.span = b.span
    /\ a.num * b.den < b.num * a.den

\* the circle markers one call leaves on the map
NeighborhoodCircles(list) ==
    [id \in LocationIds |->
        [on |-> TRUE, count |-> CountOf(list, id),
         radius |-> Radius(CountOf(list, id), MaxCountOf(list))]]

UpdateNeighborhoodCircles ==
    /\ circles' = NeighborhoodCircles(incidents)
    /\ UNCHANGED <<serverVars, codeList, neighborhoodList, incidents, filterVars,
                   formVars, procVars, pinVars, timerVars>>

\* an incident row in neighborhood n
RowIn(n) == [IncidentJson(SeedRows[1]) EXCEPT !.neighborhood_number = n]

RECURSIVE Repeat(_, _)
Repeat(x, k) == IF k = 0 THEN <<>> ELSE <<x>> \o Repeat(x, k - 1)

\* a neighborhood number that has no marker location
OutsideId == NumLocations + 1

\* incident lists with every combination of counts in three neighborhoods,
\* with and without a larger count in a neighborhood that has no marker
CountLists ==
    {Repeat(RowIn(1), a) \o Repeat(RowIn(2), b) \o Repeat(RowIn(3), c)
        \o Repeat(RowIn(OutsideId), d)
     : a \in 0..MaxCount, b \in 0..MaxCount, c \in 0..MaxCount, d \in {0, MaxCount + 2}}

InitCircles ==
    /\ PageInit
    /\ incidents \in CountLists
    /\ Incidents = <<>>
    /\ Codes = SeedCodes
    /\ Neighborhoods = SeedNeighborhoods
    /\ uniqueKey = TRUE
    /\ reqs = [r \in Slots |-> Idle]
    /\ resp = NoGet

NextCircles == UpdateNeighborhoodCircles

SpecCircles == InitCircles /\ [][NextCircles]_vars

\* C11: once updateNeighborhoodCircles has run, every location has a circle
\* whose radius is MinRadius + RadiusSpan * sqrt(count / maxCount) with
\* maxCount >= 1 (no division by zero); a larger count has a strictly larger
\* radius, a zero count has the minimum radius MinRadius > 0, a count equal to
\* the maximum of the result set has the maximum radius MinRadius + RadiusSpan,
\* and no circle is larger than that.
C11_RadiusByCount ==
    \A id \in LocationIds : circles[id].on =>
        LET r == circles[id].radius IN
        /\ circles[id].count = CountOf(incidents, id)
        /\ r.base = MinRadius /\ r.base > 0 /\ r.span = RadiusSpan /\ r.span > 0
        /\ r.den >= 1 /\ r.num = circles[id].count /\ r.num <= r.den
        /\ r.num = 0 <=> ~RadiusLess(Radius(0, 1), r)
        /\ r.num = r.den <=> ~RadiusLess(r, Radius(1, 1))
        /\ r.num = r.den <=> circles[id].count = MaxOf({1} \cup {CountOf(incidents, n) : n \in NumbersIn(incidents)})
        /\ \A other \in LocationIds :
              circles[other].on /\ circles[id].count > circles[other].count
                 => RadiusLess(circles[other].radius, r)

\* counts {1: 10, 2: 5, 3: 0} have been drawn
C11_Witness ==
    /\ circles[1].on
    /\ CountOf(incidents, 1) = 10 /\ CountOf(incidents, 2) = 5 /\ CountOf(incidents, 3) = 0
    /\ RadiusLess(circles[2].radius, circles[1].radius)
    /\ RadiusLess(circles[3].radius, circles[2].radius)
    /\ circles[3].radius = Radius(0, 10)

\* the circles of an empty incident list have been drawn
C11_WitnessEmpty ==
    /\ incidents = <<>>
    /\ \A id \in LocationIds : circles[id].on /\ circles[id].radius = Radius(0, 1)


(* ------------------------------ the page ------------------------------ *)
\* the URL typed into the dialog
Url == "http://localhost:8000"

\* the state a failed operation is said to leave alone
Tracked ==
    <<codeList, neighborhoodList, incidents, circles, crimeMarker, mapMarkers,
      newIncident, showNewIncidentForm, Selections>>

DigitChar(d) == CHOOSE c \in Digits : DigitVal(c) = d

\* n.toString() of a natural number
RECURSIVE ToText(_)
ToText(n) ==
    IF n < 10 THEN <<DigitChar(n)>> ELSE ToText(n \div 10) \o <<DigitChar(n % 10)>>

\* a.join(',') of an array of numbers
RECURSIVE Join(_)
Join(a) ==
    IF a = <<>> THEN <<>>
    ELSE IF Len(a) = 1 THEN ToText(a[1])
    ELSE ToText(a[1]) \o <<",">> \o Join(Tail(a))

\* the URLSearchParams loadIncidents builds from the selections
LoadQuery(sel) ==
    [start_date |-> sel.start, end_date |-> sel.end, code |-> Join(sel.codes),
     grid |-> <<>>, neighborhood |-> Join(sel.neighborhoods),
     limit |-> ToText(sel.limit)]

\* the slot an async function takes when it starts: the first unused one
FreeOp(o) ==
    /\ ops[o].pc = "idle"
    /\ \A p \in OpSlots : p < o => ops[p].pc # "idle"

Request(kind, query, body) ==
    [kind |-> kind, url |-> crime_url, query |-> query, body |-> body]

\* op goes on to await the request
Await(op, pc, req) ==
    [op EXCEPT !.pc = pc, !.req = req, !.answered = FALSE, !.res = NoRes]

\* loadIncidents up to its await, called from op
LoadIncidents(op) ==
    [Await(op, "incidents", Request("incidents", LoadQuery(Selections), NoReq.body))
        EXCEPT !.seq = Cardinality({p \in OpSlots : ops[p].seq > 0}) + 1]

\* op returns
Finish(op, outcome, alert) ==
    [op EXCEPT !.pc = "done", !.req = NoReq, !.answered = FALSE, !.res = NoRes,
               !.outcome = outcome, !.alert = alert]

\* res.ok
Ok(op) == op.answered /\ op.res.status = StatusOK

\* the alert of the catch block of each function
FailAlert(fn) ==
    CASE fn = "initializeCrimes" -> "Failed to load REST data. Check REST server + URL."
      [] fn = "applyFilters" -> "Failed to reload incidents."
      [] fn = "submitNewIncident" -> "Error adding incident"
      [] fn = "deleteIncident" -> "Error deleting incident"

\* the alert of each function when it went through
DoneAlert(fn) ==
    CASE fn = "initializeCrimes" -> "Connected"
      [] fn = "applyFilters" -> ""
      [] fn = "submitNewIncident" -> "Incident added successfully!"
      [] fn = "deleteIncident" -> "Incident deleted successfully"

\* the URL is typed into the dialog
TypeUrl ==
    /\ dialogOpen /\ crime_url = ""
    /\ crime_url' = Url
    /\ UNCHANGED <<serverVars, dataVars, filterVars, formVars, dialogOpen, ops, applied,
                   pinVars, timerVars>>

\* closeDialog: the dialog closes and initializeCrimes starts
CloseDialog(o) ==
    /\ dialogOpen /\ crime_url # ""
    /\ FreeOp(o)
    /\ dialogOpen' = FALSE
    /\ ops' = [ops EXCEPT ![o] =
                 Await([NoOp EXCEPT !.fn = "initializeCrimes"], "codes",
                       Request("codes", NoQuery, NoReq.body))]
    /\ UNCHANGED <<serverVars, dataVars, filterVars, formVars, crime_url, applied,
                   pinVars, timerVars>>

\* idx > -1 ? splice(idx, 1) : push(x)
Toggle(a, x) ==
    IF x \in Range(a) THEN SelectSeq(a, LAMBDA y : y # x) ELSE Append(a, x)

ToggleCodeFilter(code) ==
    /\ \E i \in 1..Len(codeList) : codeList[i].code = code
    /\ selectedCodes' = Toggle(selectedCodes, code)
    /\ UNCHANGED <<serverVars, dataVars, selectedNeighborhoods, startDate, endDate,
                   maxIncidents, formVars, procVars, pinVars, timerVars>>

ToggleNeighborhoodFilter(id) ==
    /\ \E i \in 1..Len(neighborhoodList) : neighborhoodList[i].id = id
    /\ selectedNeighborhoods' = Toggle(selectedNeighborhoods, id)
    /\ UNCHANGED <<serverVars, dataVars, selectedCodes, startDate, endDate,
                   maxIncidents, formVars, procVars, pinVars, timerVars>>

\* v-model="startDate"
EditStartDate(d) ==
    /\ startDate # d
    /\ startDate' = d
    /\ UNCHANGED <<serverVars, dataVars, selectedCodes, selectedNeighborhoods, endDate,
                   maxIncidents, formVars, procVars, pinVars, timerVars>>

\* v-model="endDate"
EditEndDate(d) ==
    /\ endDate # d
    /\ endDate' = d
    /\ UNCHANGED <<serverVars, dataVars, selectedCodes, selectedNeighborhoods, startDate,
                   maxIncidents, formVars, procVars, pinVars, timerVars>>

\* v-model.number="maxIncidents"
EditMaxIncidents(n) ==
    /\ maxIncidents # n
    /\ maxIncidents' = n
    /\ UNCHANGED <<serverVars, dataVars, selectedCodes, selectedNeighborhoods, startDate,
                   endDate, formVars, procVars, pinVars, timerVars>>

\* applyFilters up to the await in loadIncidents
ApplyFilters(o) ==
    /\ crime_url # ""
    /\ FreeOp(o)
    /\ applied' = Selections
    /\ ops' = [ops EXCEPT ![o] =
                 LoadIncidents([NoOp EXCEPT !.fn = "applyFilters"])]
    /\ UNCHANGED <<serverVars, dataVars, filterVars, formVars, crime_url, dialogOpen,
                   pinVars, timerVars>>

\* the button that shows and hides the new-incident form
ToggleForm ==
    /\ showNewIncidentForm' = ~showNewIncidentForm
    /\ UNCHANGED <<serverVars, dataVars, filterVars, newIncident, procVars, pinVars,
                   timerVars>>

\* v-model="newIncident[field]", the fields typed one after the other
FillForm(body) ==
    /\ showNewIncidentForm
    /\ newIncident # body
    /\ newIncident' = body
    /\ UNCHANGED <<serverVars, dataVars, filterVars, showNewIncidentForm, procVars,
                   pinVars, timerVars>>

\* Object.values(newIncident.value).every(v => v !== '')
AllFilled(form) ==
    /\ form.case_number # "" /\ form.date # <<>> /\ form.time # <<>> /\ form.code # 0
    /\ form.incident # "" /\ form.police_grid # 0 /\ form.neighborhood_number # 0
    /\ form.block # ""

\* submitNewIncident up to the await of the PUT
SubmitNewIncident(o) ==
    /\ showNewIncidentForm
    /\ AllFilled(newIncident)
    /\ FreeOp(o)
    /\ ops' = [ops EXCEPT ![o] =
                 Await([NoOp EXCEPT !.fn = "submitNewIncident"], "put",
                       Request("put", NoQuery, newIncident))]
    /\ UNCHANGED <<serverVars, dataVars, filterVars, formVars, crime_url, dialogOpen,
                   applied, pinVars, timerVars>>

\* deleteIncident on a row of the table, confirmed, up to the await of the DELETE
DeleteIncident(o, cn) ==
    /\ \E i \in 1..Len(incidents) : incidents[i].case_number = cn
    /\ FreeOp(o)
    /\ ops' = [ops EXCEPT ![o] =
                 Await([NoOp EXCEPT !.fn = "deleteIncident"], "delete",
                       Request("delete", NoQuery, [case_number |-> cn]))]
    /\ UNCHANGED <<serverVars, dataVars, filterVars, formVars, crime_url, dialogOpen,
                   applied, pinVars, timerVars>>

\* the handler of the REST server runs on a request: the store it leaves and
\* the response it sends
Answers(req) ==
    CASE req.kind = "codes" ->
            {[store |-> Incidents, res |-> [status |-> StatusOK, rows |-> CodesJson(<<>>)]]}
      [] req.kind = "neighborhoods" ->
            {[store |-> Incidents,
              res |-> [status |-> StatusOK, rows |-> NeighborhoodsJson(<<>>)]]}
      [] req.kind = "incidents" ->
            {[store |-> Incidents, res |-> [status |-> r.status, rows |-> r.rows]]
             : r \in ListResults(Incidents, req.query)}
      [] req.kind = "put" ->
            IF CreateBlocked(SelectCase(req.body.case_number))
            THEN {[store |-> Incidents, res |-> [status |-> RespConflict.status, rows |-> <<>>]]}
            ELSE {[store |-> Append(Incidents, InsertParams(req.body)),
                   res |-> [status |-> RespOK.status, rows |-> <<>>]]}
      [] req.kind = "delete" ->
            IF DeleteBlocked(SelectCase(req.body.case_number))
            THEN {[store |-> Incidents, res |-> [status |-> RespNotFound.status, rows |-> <<>>]]}
            ELSE {[store |-> DeleteRows(Incidents, req.body.case_number),
                   res |-> [status |-> RespOK.status, rows |-> <<>>]]}

\* fetch settles: it rejects (the request reached no server), or the REST
\* server at the URL has handled the request
Serve(o) ==
    /\ ops[o].pc \notin {"idle", "done"} /\ ~ops[o].answered
    /\ \/ /\ ops' = [ops EXCEPT ![o].answered = TRUE, ![o].res = NoRes]
          /\ UNCHANGED Incidents
       \/ /\ ops[o].req.url = Url
          /\ \E a \in Answers(ops[o].req) :
                /\ Incidents' = a.store
                /\ ops' = [ops EXCEPT ![o].answered = TRUE, ![o].res = a.res]
    /\ UNCHANGED <<Codes, Neighborhoods, uniqueKey, reqs, resp, dataVars, filterVars,
                   formVars, crime_url, dialogOpen, applied, pinVars, timerVars>>

\* initializeCrimes: codeList.value = await fetchJson('/codes')
CodesFetched(o) ==
    /\ ops[o].pc = "codes" /\ ops[o].answered
    /\ codeList' = IF Ok(ops[o]) THEN ops[o].res.rows ELSE codeList
    /\ UNCHANGED <<serverVars, neighborhoodList, incidents, circles, filterVars, formVars,
                   crime_url, dialogOpen, applied, pinVars, timerVars>>
    /\ ops' = [ops EXCEPT ![o] =
                 [(IF Ok(ops[o])
                   THEN Await(@, "neighborhoods", Request("neighborhoods", NoQuery, NoReq.body))
                   ELSE Finish(@, "failed", FailAlert(@.fn)))
                  EXCEPT !.changed = @ \/ Tracked' # Tracked]]

\* initializeCrimes: neighborhoodList.value = await fetchJson('/neighborhoods'),
\* then loadIncidents up to its await
NeighborhoodsFetched(o) ==
    /\ ops[o].pc = "neighborhoods" /\ ops[o].answered
    /\ neighborhoodList' = IF Ok(ops[o]) THEN ops[o].res.rows ELSE neighborhoodList
    /\ UNCHANGED <<serverVars, codeList, incidents, circles, filterVars, formVars,
                   crime_url, dialogOpen, applied, pinVars, timerVars>>
    /\ ops' = [ops EXCEPT ![o] =
                 [(IF Ok(ops[o])
                   THEN LoadIncidents(@)
                   ELSE Finish(@, "failed", FailAlert(@.fn)))
                  EXCEPT !.changed = @ \/ Tracked' # Tracked]]

\* the list an answer to loadIncidents puts on display, unless an answer to a
\* later call is on display already
LoadedIncidents_KeepNewer(o) ==
    IF \E p \in OpSlots : ops[p].rseq > 0 /\ ops[p].seq > ops[o].seq
    THEN incidents ELSE ops[o].res.rows

\* incidents.value = await fetchJson(...)
LoadedIncidents(o) == ops[o].res.rows

\* loadIncidents from its await on, and the rest of the function that called it
IncidentsFetched(o) ==
    /\ ops[o].pc = "incidents" /\ ops[o].answered
    /\ incidents' = IF Ok(ops[o]) THEN LoadedIncidents(o) ELSE incidents
    /\ circles' = IF Ok(ops[o]) THEN NeighborhoodCircles(incidents') ELSE circles
    /\ UNCHANGED <<serverVars, codeList, neighborhoodList, filterVars, formVars,
                   crime_url, dialogOpen, applied, pinVars, timerVars>>
    /\ ops' = [ops EXCEPT ![o] =
                 [(IF Ok(ops[o])
                   THEN Finish(@, "ok", DoneAlert(@.fn))
                   ELSE Finish(@, "failed", FailAlert(@.fn)))
                  EXCEPT !.changed = @ \/ Tracked' # Tracked,
                         !.rseq = IF Ok(ops[o])
                                  THEN Cardinality({p \in OpSlots : ops[p].rseq > 0}) + 1
                                  ELSE 0]]

\* submitNewIncident from the answer to the PUT to the await in loadIncidents
PutAnswered(o) ==
    /\ ops[o].pc = "put" /\ ops[o].answered
    /\ showNewIncidentForm' = IF Ok(ops[o]) THEN FALSE ELSE showNewIncidentForm
    /\ newIncident' = IF Ok(ops[o]) THEN EmptyForm ELSE newIncident
    /\ UNCHANGED <<serverVars, dataVars, filterVars, crime_url, dialogOpen, applied,
                   pinVars, timerVars>>
    /\ ops' = [ops EXCEPT ![o] =
                 [(IF Ok(ops[o])
                   THEN LoadIncidents([@ EXCEPT !.mutated = TRUE])
                   ELSE Finish(@, "failed", FailAlert(@.fn)))
                  EXCEPT !.changed = @ \/ Tracked' # Tracked]]

\* deleteIncident from the answer to the DELETE to the await in loadIncidents
DeleteAnswered(o) ==
    /\ ops[o].pc = "delete" /\ ops[o].answered
    /\ UNCHANGED <<serverVars, dataVars, filterVars, formVars, crime_url, dialogOpen,
                   applied, pinVars, timerVars>>
    /\ ops' = [ops EXCEPT ![o] =
                 IF Ok(ops[o])
                 THEN LoadIncidents([@ EXCEPT !.mutated = TRUE])
                 ELSE Finish(@, "failed", FailAlert(@.fn))]

\* the store the page talks to
PageStore == <<SeedRows[1], SeedRows[3]>>

\* what the user picks and types
PageCodes == {1}
PageNeighborhoods == {2}
PageDates == {<<>>, <<2024, 2, 1>>}
PageLimits == {DefaultLimit, 1}
PageBodies ==
    {Body("24000001", CHOOSE t \in Templates : t.code = 2),
     Body(SeedRows[1].case_number, CHOOSE t \in Templates : t.code = 1)}
PageCases ==
    {PageStore[i].case_number : i \in 1..Len(PageStore)} \cup
    {b.case_number : b \in PageBodies}

InitPage ==
    /\ ClientInit
    /\ Incidents = PageStore
    /\ Codes = SeedCodes
    /\ Neighborhoods = SeedNeighborhoods
    /\ uniqueKey = TRUE
    /\ reqs = [r \in Slots |-> Idle]
    /\ resp = NoGet

\* loading, creating and deleting under the filters the page starts with
NextPage ==
    \/ TypeUrl
    \/ \E o \in OpSlots : CloseDialog(o)
    \/ \E o \in OpSlots : ApplyFilters(o)
    \/ ToggleForm
    \/ \E body \in PageBodies : FillForm(body)
    \/ \E o \in OpSlots : SubmitNewIncident(o)
    \/ \E o \in OpSlots, cn \in PageCases : DeleteIncident(o, cn)
    \/ \E o \in OpSlots : Serve(o)
    \/ \E o \in OpSlots : CodesFetched(o)
    \/ \E o \in OpSlots : NeighborhoodsFetched(o)
    \/ \E o \in OpSlots : IncidentsFetched(o)
    \/ \E o \in OpSlots : PutAnswered(o)
    \/ \E o \in OpSlots : DeleteAnswered(o)

SpecPage == InitPage /\ [][NextPage]_vars

\* picking filters, applying them, and deleting a row
NextFilters ==
    \/ TypeUrl
    \/ \E o \in OpSlots : CloseDialog(o)
    \/ \E code \in PageCodes : ToggleCodeFilter(code)
    \/ \E id \in PageNeighborhoods : ToggleNeighborhoodFilter(id)
    \/ \E d \in PageDates : EditStartDate(d)
    \/ \E d \in PageDates : EditEndDate(d)
    \/ \E n \in PageLimits : EditMaxIncidents(n)
    \/ \E o \in OpSlots : ApplyFilters(o)
    \/ \E o \in OpSlots, cn \in PageCases : DeleteIncident(o, cn)
    \/ \E o \in OpSlots : Serve(o)
    \/ \E o \in OpSlots : CodesFetched(o)
    \/ \E o \in OpSlots : NeighborhoodsFetched(o)
    \/ \E o \in OpSlots : IncidentsFetched(o)
    \/ \E o \in OpSlots : DeleteAnswered(o)

SpecFilters == InitPage /\ [][NextFilters]_vars


(* --------------------------- filters: claims -------------------------- *)
\* the toggles and edits of the filter panel
FilterEdit ==
    \/ \E code \in PageCodes : ToggleCodeFilter(code)
    \/ \E id \in PageNeighborhoods : ToggleNeighborhoodFilter(id)
    \/ \E d \in PageDates : EditStartDate(d) \/ EditEndDate(d)
    \/ \E n \in PageLimits : EditMaxIncidents(n)

\* a toggle or an edit changes the selections and nothing else: no request is
\* issued and the displayed list stays
FilterEditsOnlySelect ==
    [][FilterEdit => UNCHANGED <<serverVars, dataVars, formVars, procVars, pinVars,
                                 timerVars>>]_vars

\* C12: a fetch of the incident list that a create or a delete issues carries
\* the filter set in force at the last applyFilters (the initial one when
\* applyFilters never ran), whatever has been selected since.
C12_FetchUsesApplied ==
    [][\A o \in OpSlots :
          /\ ops'[o].pc = "incidents" /\ ops[o].pc # "incidents"
          /\ ops'[o].fn \in {"submitNewIncident", "deleteIncident"}
          => ops'[o].req.query = LoadQuery(applied')]_vars


(* ---------------------------- page: claims ---------------------------- *)
\* C13: an operation that ended in its catch block has changed none of the
\* code list, neighborhood list, incident list, markers, pinned marker,
\* new-incident form and filter selections.
C13_FailureLeavesState ==
    \A o \in OpSlots : ops[o].outcome = "failed" => ~ops[o].changed

\* every operation that ended in its catch block has alerted the user
FailureAlerts ==
    \A o \in OpSlots : ops[o].outcome = "failed" => ops[o].alert = FailAlert(ops[o].fn)

\* no request is on its way and no function is waiting
Quiet == \A o \in OpSlots : ops[o].pc \in {"idle", "done"}

\* the list and the circles are an answer of the server, as its store is now,
\* to the filters as they are now
ShowsServerAnswer ==
    \E r \in ListResults(Incidents, LoadQuery(Selections)) :
        /\ incidents = r.rows
        /\ circles = NeighborhoodCircles(r.rows)

\* C14: once every request has completed, none of them failed and a create or
\* a delete went through, the displayed list and the marker counts are the
\* server's answer for the current filters.
C14_ConsistentWhenQuiet ==
    /\ Quiet
    /\ \E o \in OpSlots : ops[o].mutated
    /\ \A o \in OpSlots : ops[o].pc = "done" => ops[o].outcome = "ok"
    => ShowsServerAnswer

\* a create or a delete that went through goes on to loadIncidents under the
\* filters as they are, and one that did not leaves the store and the list
MutationThenFetch ==
    [][\A o \in OpSlots :
          /\ ops[o].pc \in {"put", "delete"} /\ ops'[o].pc # ops[o].pc
             => /\ incidents' = incidents /\ circles' = circles /\ Incidents' = Incidents
                /\ IF Ok(ops[o])
                   THEN /\ ops'[o].pc = "incidents"
                        /\ ops'[o].req.query = LoadQuery(Selections)
                   ELSE ops'[o].outcome = "failed"
          /\ ops[o].pc \in {"put", "delete"} /\ ~ops[o].answered /\ ops'[o].answered
             /\ ops'[o].res.status # StatusOK
             => Incidents' = Incidents]_vars

\* the list changes only when an answer to loadIncidents is stored whole
NeverPatched ==
    [][incidents' # incidents =>
          \E o \in OpSlots : /\ ops[o].pc = "incidents" /\ Ok(ops[o])
                             /\ incidents' = ops[o].res.rows]_vars


\* C15: a fetch of the incident list stays in flight, with the request it was
\* sent with, until its own answer is handled, whatever else is started; and
\* when its answer is handled the displayed list and the circles become those
\* of that answer, whether or not a fetch issued later has been handled
\* already: the last answer handled is the one on display.
C15_LastResolvedWins ==
    [][\A o \in OpSlots : ops[o].pc = "incidents" =>
          \/ /\ ops'[o].pc = "incidents"
             /\ ops'[o].req = ops[o].req
             /\ ops[o].answered => ops'[o] = ops[o]
          \/ /\ ops'[o].pc = "done"
             /\ ops[o].answered
             /\ IF Ok(ops[o])
                THEN /\ incidents' = ops[o].res.rows
                     /\ circles' = NeighborhoodCircles(ops[o].res.rows)
                ELSE incidents' = incidents /\ circles' = circles]_vars

\* two fetches have been handled, the earlier one last, nothing is in flight,
\* and the list on display is not what the server answers now
C15_Witness ==
    /\ Quiet
    /\ \E a, b \in OpSlots :
          /\ ops[a].outcome = "ok" /\ ops[b].outcome = "ok"
          /\ ops[a].seq < ops[b].seq /\ ops[b].rseq > 0 /\ ops[a].rseq > ops[b].rseq
    /\ ~ShowsServerAnswer


(* ------------------------------- the map ------------------------------ *)
\* what the geocoding service can answer: no match, a match, a match whose
\* lat or lon is no number
GeocodeRows == {<<>>, <<[valid |-> TRUE]>>, <<[valid |-> FALSE]>>}

\* showIncidentOnMap on a row of the table, up to the await of the search: the
\* marker the page holds is taken off the map first
ShowIncidentOnMap(o, cn) ==
    /\ \E i \in 1..Len(incidents) : incidents[i].case_number = cn
    /\ FreeOp(o)
    /\ mapMarkers' = mapMarkers \ {crimeMarker}
    /\ crimeMarker' = 0
    /\ UNCHANGED <<serverVars, dataVars, filterVars, formVars, crime_url, dialogOpen,
                   applied, mapView, timerVars>>
    /\ ops' = [ops EXCEPT ![o] =
                 [Await([NoOp EXCEPT !.fn = "showIncidentOnMap"], "geocode",
                        Request("geocode", NoQuery, [case_number |-> cn]))
                  EXCEPT !.changed = Tracked' # Tracked]]

\* handleLocationGo with a query typed, up to the await of the search
HandleLocationGo(o) ==
    /\ FreeOp(o)
    /\ ops' = [ops EXCEPT ![o] =
                 Await([NoOp EXCEPT !.fn = "handleLocationGo"], "geocode",
                       Request("geocode", NoQuery, NoReq.body))]
    /\ UNCHANGED <<serverVars, dataVars, filterVars, formVars, crime_url, dialogOpen,
                   applied, pinVars, timerVars>>

\* the search settles: fetch or res.json() rejects, or an answer is parsed
Geocode(o) ==
    /\ ops[o].pc = "geocode" /\ ~ops[o].answered
    /\ \/ ops' = [ops EXCEPT ![o].answered = TRUE, ![o].res = NoRes]
       \/ \E rows \in GeocodeRows :
             ops' = [ops EXCEPT ![o].answered = TRUE,
                                ![o].res = [status |-> StatusOK, rows |-> rows]]
    /\ UNCHANGED <<serverVars, dataVars, filterVars, formVars, crime_url, dialogOpen,
                   applied, pinVars, timerVars>>

\* Array.isArray(data) && data.length > 0, with finite lat and lon
Located(op) == Ok(op) /\ op.res.rows # <<>> /\ op.res.rows[1].valid

\* the alert of a search that places nothing
GeocodeAlert(op) ==
    IF ~Ok(op) THEN "Error locating address"
    ELSE IF op.res.rows = <<>> THEN "Could not locate address on map"
    ELSE "Could not locate address on map (invalid coords)"

\* map.crimeMarker = L.marker(...).addTo(map.leaflet): the markers on the map
\* once call o has added its own
Pinned(o) == mapMarkers \cup {o}

\* showIncidentOnMap from the answer of the search on
ShowAnswered(o) ==
    /\ ops[o].fn = "showIncidentOnMap" /\ ops[o].pc = "geocode" /\ ops[o].answered
    /\ mapMarkers' = IF Located(ops[o]) THEN Pinned(o) ELSE mapMarkers
    /\ crimeMarker' = IF Located(ops[o]) THEN o ELSE crimeMarker
    /\ mapView' = IF Located(ops[o]) THEN "incident" ELSE mapView
    /\ UNCHANGED <<serverVars, dataVars, filterVars, formVars, crime_url, dialogOpen,
                   applied, timerVars>>
    /\ ops' = [ops EXCEPT ![o] =
                 [(IF Located(ops[o])
                   THEN Finish(@, "ok", "")
                   ELSE Finish(@, "failed", GeocodeAlert(ops[o])))
                  EXCEPT !.changed = @ \/ Tracked' # Tracked]]

\* handleLocationGo from the answer of the search on
LocationAnswered(o) ==
    /\ ops[o].fn = "handleLocationGo" /\ ops[o].pc = "geocode" /\ ops[o].answered
    /\ mapView' = IF Located(ops[o]) THEN "search" ELSE mapView
    /\ UNCHANGED <<serverVars, dataVars, filterVars, formVars, crime_url, dialogOpen,
                   applied, crimeMarker, mapMarkers, timerVars>>
    /\ ops' = [ops EXCEPT ![o] =
                 IF Located(ops[o])
                 THEN Finish(@, "ok", "")
                 ELSE Finish(@, "failed",
                             IF ~Ok(ops[o]) THEN "Location search failed"
                             ELSE IF ops[o].res.rows = <<>> THEN "Location not found"
                             ELSE "Location found but coordinates were invalid.")]

\* the page connected: the URL typed, the dialog closed, the three lists loaded
InitMap ==
    /\ Incidents = PageStore
    /\ Codes = SeedCodes
    /\ Neighborhoods = SeedNeighborhoods
    /\ uniqueKey = TRUE
    /\ reqs = [r \in Slots |-> Idle]
    /\ resp = NoGet
    /\ crime_url = Url
    /\ dialogOpen = FALSE
    /\ codeList = CodesJson(<<>>)
    /\ neighborhoodList = NeighborhoodsJson(<<>>)
    /\ selectedCodes = <<>> /\ selectedNeighborhoods = <<>>
    /\ startDate = <<>> /\ endDate = <<>> /\ maxIncidents = DefaultLimit
    /\ applied = Selections
    /\ \E r \in ListResults(PageStore, LoadQuery(Selections)) :
          incidents = r.rows /\ circles = NeighborhoodCircles(r.rows)
    /\ newIncident = EmptyForm /\ showNewIncidentForm = FALSE
    /\ ops = [o \in OpSlots |-> NoOp]
    /\ crimeMarker = 0 /\ mapMarkers = {} /\ mapView = "center"
    /\ reverseTimer = 0 /\ timers = {} /\ now = 0 /\ mounted = "no"
    /\ lastMove = 0 /\ lookups = 0

NextMap ==
    \/ \E o \in OpSlots, cn \in PageCases : ShowIncidentOnMap(o, cn)
    \/ \E o \in OpSlots : HandleLocationGo(o)
    \/ \E o \in OpSlots : Geocode(o)
    \/ \E o \in OpSlots : ShowAnswered(o)
    \/ \E o \in OpSlots : LocationAnswered(o)

SpecMap == InitMap /\ [][NextMap]_vars

\* C17: at most one pinned incident marker is on the map.
C17_OnePinnedMarker == Cardinality(mapMarkers) <= 1

\* a search that found nothing, failed or gave bad coordinates adds no marker
\* and alerts; one that found the address adds one marker and re-centers
ShowPlacesOneOrNone ==
    [][\A o \in OpSlots :
          ops[o].fn = "showIncidentOnMap" /\ ops[o].pc = "geocode" /\ ops'[o].pc = "done"
          => IF Located(ops[o])
             THEN /\ mapMarkers' = mapMarkers \cup {o} /\ o \notin mapMarkers
                  /\ crimeMarker' = o /\ mapView' = "incident"
             ELSE /\ mapMarkers' = mapMarkers /\ crimeMarker' = crimeMarker
                  /\ ops'[o].alert # ""]_vars


(* ------------------------ debounceReverseGeocode ---------------------- *)
\* setTimeout(..., 350)
Delay == 350

\* the timers one run sets, and how long the clock runs
MaxTimers == 4
MaxTime == 1400

\* how far the clock moves between two events
TickSteps == {150, 350}

\* clearTimeout(id) that clears nothing
ClearTimeout_Nothing(ts, id) == ts

\* clearTimeout(id): a timer that fired or was cleared before stays away
ClearTimeout(ts, id) == {t \in ts : t.id # id}

\* debounceReverseGeocode: the timers pending and the handle kept after it
Debounce ==
    /\ reverseTimer < MaxTimers
    /\ reverseTimer' = reverseTimer + 1
    /\ timers' = ClearTimeout(timers, reverseTimer)
                    \cup {[id |-> reverseTimer + 1, due |-> now + Delay]}
    /\ lastMove' = now
    /\ lookups' = 0

\* onMounted: the map is made, the listener registered, the first label asked for
Mount ==
    /\ mounted = "no"
    /\ mounted' = "yes"
    /\ Debounce
    /\ UNCHANGED <<serverVars, dataVars, filterVars, formVars, procVars, pinVars, now>>

\* the map fires 'moveend': the listener stays registered after unmount
MoveEnd ==
    /\ mounted # "no"
    /\ Debounce
    /\ UNCHANGED <<serverVars, dataVars, filterVars, formVars, procVars, pinVars, now,
                   mounted>>

\* time passes
Tick(d) ==
    /\ now + d <= MaxTime
    /\ now' = now + d
    /\ UNCHANGED <<serverVars, dataVars, filterVars, formVars, procVars, pinVars,
                   reverseTimer, timers, mounted, lastMove, lookups>>

\* a timer that is due runs its callback: updateCenterLabelFromMap sends the
\* reverse-geocode request
Fire(t) ==
    /\ t \in timers /\ t.due <= now
    /\ timers' = timers \ {t}
    /\ lookups' = lookups + 1
    /\ UNCHANGED <<serverVars, dataVars, filterVars, formVars, procVars, pinVars,
                   reverseTimer, now, mounted, lastMove>>

\* onBeforeUnmount
Unmount ==
    /\ mounted = "yes"
    /\ mounted' = "gone"
    /\ timers' = ClearTimeout(timers, reverseTimer)
    /\ UNCHANGED <<serverVars, dataVars, filterVars, formVars, procVars, pinVars,
                   reverseTimer, now, lastMove, lookups>>

InitTimer ==
    /\ ClientInit
    /\ Incidents = PageStore
    /\ Codes = SeedCodes
    /\ Neighborhoods = SeedNeighborhoods
    /\ uniqueKey = TRUE
    /\ reqs = [r \in Slots |-> Idle]
    /\ resp = NoGet

NextTimer ==
    \/ Mount
    \/ MoveEnd
    \/ \E d \in TickSteps : Tick(d)
    \/ \E t \in timers : Fire(t)
    \/ Unmount

SpecTimer == InitTimer /\ [][NextTimer]_vars

\* C16: at most one timer is pending, and it is the one of the last move, due
\* Delay after it; a move leaves exactly its own timer pending; of the moves
\* up to the last one, exactly one lookup is issued or still scheduled while
\* the page is mounted, and it is issued no sooner than Delay after the last
\* move; unmounting leaves no timer pending, and the lookup count as it was.
C16_Debounced ==
    [][/\ Cardinality(timers') <= 1
       /\ \A t \in timers' : t.id = reverseTimer' /\ t.due = lastMove' + Delay
       /\ reverseTimer' # reverseTimer
             => timers' = {[id |-> reverseTimer', due |-> now + Delay]} /\ lastMove' = now
       /\ mounted' = "yes" => lookups' + Cardinality(timers') = 1
       /\ lookups' <= 1
       /\ lookups' > lookups => now >= lastMove + Delay /\ timers' = {}
       /\ mounted = "yes" /\ mounted' = "gone" => timers' = {} /\ lookups' = lookups
      ]_vars

\* three moves, each within Delay of the one before, then one lookup
C16_Witness ==
    /\ reverseTimer >= 3
    /\ lastMove < Delay
    /\ lookups = 1 /\ timers = {}

\* unmounted with a timer pending: it is gone and no lookup was issued
C16_WitnessUnmount ==
    /\ mounted = "gone" /\ reverseTimer = 1 /\ timers = {} /\ lookups = 0

====
